---- MODULE Spec2Model ----
(***************************************************************************)
(* Model of src/pharma_SCM.py, a Streamlit dashboard that simulates a      *)
(* pharmaceutical supply chain.  The script is rerun from the top on every *)
(* button click; st.session_state survives the reruns and is the state of  *)
(* this model.  Exactly one button is pressed per run, so a run is one of  *)
(* the handlers "Next Week", "Reset Simulation" or "Execute Decisions".    *)
(*                                                                         *)
(* Floating point: every int(x * c) of the source (c in 1.3, 0.25, 0.9,    *)
(* 0.95, 0.8 and the drift factors used here) equals the exact truncated   *)
(* quotient for all 0 <= x < 400000, so PyInt(num, den) below is exact for   *)
(* the quantities this model reaches.                                      *)
(***************************************************************************)
EXTENDS Integers, Sequences, FiniteSets, TLC

VARIABLES
  initialized,  \* st.session_state.initialized: "unset", "True" or "False"
  week,         \* st.session_state.week
  money,        \* st.session_state.money
  inventory,    \* st.session_state.inventory
  demand,       \* st.session_state.demand
  events,       \* st.session_state.events
  kpis,         \* st.session_state.kpis
  history,      \* st.session_state.history
  outcome,      \* message of the last run: "none", "success", "insufficient_funds"
  clicks        \* number of Next Week / Execute Decisions clicks so far (bounding counter)

vars == <<initialized, week, money, inventory, demand, events, kpis, history,
          outcome, clicks>>

world == <<week, money, inventory, demand, events, kpis, history>>

-----------------------------------------------------------------------------
(* Bounds of the exploration.                                               *)

\* Spec and SpecEngine: at most MaxClicks Next Week / Execute Decisions clicks.
MaxClicks == 3

\* SpecDrain: the last week explored.
MaxWeekDrain == 8

\* SpecDecay: the last week explored, and the demand at or below which the
\* market is no longer quiet.
MaxWeekDecay == 45
LateDemand == 1

-----------------------------------------------------------------------------
(* Constants of the program.                                                *)

InitialWeek == 1
InitialMoney == 1000000
InitialRaw == 5000
InitialApi == 3000
InitialFinished == 2000
InitialDemand == 500

InitialInventory ==
  [raw_materials |-> InitialRaw, api |-> InitialApi,
   finished_products |-> InitialFinished]

InitialKpis ==
  [inventory_turnover |-> <<>>, otif |-> <<>>, costs |-> <<>>, revenue |-> <<>>]

\* random.random() < 0.3 fails: no event this week.
NoEvent == "No Event"

\* possible_events, by the part of the name the effects test for.
PossibleEvents ==
  {"Regulatory Change", "Demand Spike", "Raw Material Shortage",
   "Quality Issue", "Cold Chain Failure"}

\* Values of random.uniform(0.9, 1.1), in percent.
DriftPercents == {90, 110}

RawToApiDefault == 100
ApiToFinishedDefault == 50
PurchaseDefault == 100
PurchaseMax == 5000
RawMaterialUnitCost == 10
UnitPrice == 300

-----------------------------------------------------------------------------
(* Arithmetic helpers.                                                      *)

\* Python's int() of the exact quotient num / den (den > 0): truncation
\* toward zero.
PyInt(num, den) ==
  IF num >= 0 THEN num \div den ELSE -((-num) \div den)

Min(x, y) == IF x <= y THEN x ELSE y

Last(s) == s[Len(s)]

-----------------------------------------------------------------------------
(* Script start: the initialisation block.                                  *)

\* 'initialized' not in st.session_state
InitBlockRuns(flag) == flag = "unset"

Init ==
  /\ initialized = "True"
  /\ week = InitialWeek
  /\ money = InitialMoney
  /\ inventory = InitialInventory
  /\ demand = InitialDemand
  /\ events = <<>>
  /\ kpis = InitialKpis
  /\ history = <<>>
  /\ outcome = "none"
  /\ clicks = 0

-----------------------------------------------------------------------------
(* Next Week handler.                                                       *)

\* Mutant: the snapshot is taken after the week has been incremented.
Snapshot_AfterIncrement ==
  [week |-> week + 1, money |-> money, inventory |-> inventory, demand |-> demand]

Snapshot ==
  [week |-> week, money |-> money, inventory |-> inventory, demand |-> demand]

EventRecord(w, ev) == [week |-> w, name |-> ev]

\* Mutant: a Demand Spike adds a fixed 30 units.
DemandAfterEvent_Additive(ev, d) ==
  IF ev = "Demand Spike" THEN d + 30 ELSE d

DemandAfterEvent(ev, d) ==
  IF ev = "Demand Spike" THEN PyInt(d * 13, 10) ELSE d

MoneyAfterEvent(ev, m, inv) ==
  IF ev = "Raw Material Shortage"
  THEN m - PyInt(inv.raw_materials * 25, 100)
  ELSE m

\* Mutant: a Regulatory Change slows production: a fifth of the api is lost.
InventoryAfterEvent_RegulatorySlowdown(ev, inv) ==
  IF ev = "Regulatory Change"
  THEN [inv EXCEPT !.api = PyInt(@ * 8, 10)]
  ELSE IF ev = "Quality Issue"
  THEN [inv EXCEPT !.finished_products = PyInt(@ * 9, 10)]
  ELSE IF ev = "Cold Chain Failure"
  THEN [inv EXCEPT !.finished_products = PyInt(@ * 95, 100)]
  ELSE inv

\* Mutant: the two losses exchanged.
InventoryAfterEvent_SwappedLoss(ev, inv) ==
  IF ev = "Quality Issue"
  THEN [inv EXCEPT !.finished_products = PyInt(@ * 95, 100)]
  ELSE IF ev = "Cold Chain Failure"
  THEN [inv EXCEPT !.finished_products = PyInt(@ * 9, 10)]
  ELSE inv

InventoryAfterEvent(ev, inv) ==
  IF ev = "Quality Issue"
  THEN [inv EXCEPT !.finished_products = PyInt(@ * 9, 10)]
  ELSE IF ev = "Cold Chain Failure"
  THEN [inv EXCEPT !.finished_products = PyInt(@ * 95, 100)]
  ELSE inv

\* Mutant: the newest record is put first.
EventsAfterSample_Prepend(ev, evs, w) ==
  IF ev = NoEvent THEN evs ELSE <<EventRecord(w, ev)>> \o evs

EventsAfterSample(ev, evs, w) ==
  IF ev = NoEvent THEN evs ELSE Append(evs, EventRecord(w, ev))

\* int(demand * random.uniform(0.9, 1.1)), the factor f in percent.
DemandAfterDrift(d, f) == PyInt(d * f, 100)

TotalInventoryValue(inv) ==
  inv.raw_materials * 10 + inv.api * 50 + inv.finished_products * 200

\* Mutant: sells the whole demand, whatever the stock.
SoldProducts_Demand(inv, d) == d

SoldProducts(inv, d) == Min(inv.finished_products, d)

\* Mutant: no special case for demand 0.
Otif_Unguarded(sold, d) == <<sold, d>>

\* otif, the exact fraction as <<numerator, denominator>>.
Otif(sold, d) == IF d > 0 THEN <<sold, d>> ELSE <<1, 1>>

\* Mutant: turnover measured against the stock left after settlement.
InventoryTurnover_AfterSettlement(sold, inv) ==
  <<10 * sold, 10 * (inv.finished_products - sold) + 1>>

\* sold_products / (finished_products + 0.1), as the exact fraction
\* <<10 * sold, 10 * finished_products + 1>>.
InventoryTurnover(sold, inv) == <<10 * sold, 10 * inv.finished_products + 1>>

Revenue(sold) == sold * UnitPrice

\* Mutant: the inventory-value sample is not appended.
NextWeek_NoCostSample(ev, f) ==
  LET w    == week + 1
      d1   == DemandAfterEvent(ev, demand)
      m1   == MoneyAfterEvent(ev, money, inventory)
      inv1 == InventoryAfterEvent(ev, inventory)
      d2   == DemandAfterDrift(d1, f)
      sold == SoldProducts(inv1, d2)
  IN /\ history' = Append(history, Snapshot)
     /\ week' = w
     /\ events' = EventsAfterSample(ev, events, w)
     /\ demand' = d2
     /\ kpis' = [inventory_turnover |->
                   Append(kpis.inventory_turnover, InventoryTurnover(sold, inv1)),
                 otif |-> Append(kpis.otif, Otif(sold, d2)),
                 costs |-> kpis.costs,
                 revenue |-> Append(kpis.revenue, Revenue(sold))]
     /\ money' = m1 + Revenue(sold)
     /\ inventory' = [inv1 EXCEPT !.finished_products = @ - sold]
     /\ outcome' = "none"
     /\ UNCHANGED initialized

NextWeek(ev, f) ==
  LET w    == week + 1
      d1   == DemandAfterEvent(ev, demand)
      m1   == MoneyAfterEvent(ev, money, inventory)
      inv1 == InventoryAfterEvent(ev, inventory)
      d2   == DemandAfterDrift(d1, f)
      sold == SoldProducts(inv1, d2)
  IN /\ history' = Append(history, Snapshot)
     /\ week' = w
     /\ events' = EventsAfterSample(ev, events, w)
     /\ demand' = d2
     /\ kpis' = [inventory_turnover |->
                   Append(kpis.inventory_turnover, InventoryTurnover(sold, inv1)),
                 otif |-> Append(kpis.otif, Otif(sold, d2)),
                 costs |-> Append(kpis.costs, TotalInventoryValue(inv1)),
                 revenue |-> Append(kpis.revenue, Revenue(sold))]
     /\ money' = m1 + Revenue(sold)
     /\ inventory' = [inv1 EXCEPT !.finished_products = @ - sold]
     /\ outcome' = "none"
     /\ UNCHANGED initialized

-----------------------------------------------------------------------------
(* Reset Simulation handler.                                                *)

\* The handler stores initialized = False and reruns the script; the rerun
\* meets the initialisation block again.
\* Mutant: every Reset leaves a record in the event log.
ResetSimulation_Logged ==
  /\ initialized' = "False"
  /\ events' = Append(events, [week |-> week, name |-> "Reset"])
  /\ UNCHANGED <<week, money, inventory, demand, kpis, history>>
  /\ outcome' = "none"

ResetSimulation ==
  /\ initialized' = IF InitBlockRuns("False") THEN "True" ELSE "False"
  /\ IF InitBlockRuns("False")
     THEN /\ week' = InitialWeek
          /\ money' = InitialMoney
          /\ inventory' = InitialInventory
          /\ demand' = InitialDemand
          /\ events' = <<>>
          /\ kpis' = InitialKpis
          /\ history' = <<>>
     ELSE UNCHANGED world
  /\ outcome' = "none"

-----------------------------------------------------------------------------
(* Execute Decisions handler.                                               *)

\* Mutant: the slider's maximum fixed at the initial stock.
RawToApiMax_Fixed(inv) == InitialRaw

RawToApiMax(inv) == inv.raw_materials

ApiToFinishedMax(inv) == inv.api

\* Positions of the three sliders that the exploration tries: both ends and
\* the default of each.
RawToApiPicks(inv) == {0, RawToApiDefault, RawToApiMax(inv)} \cap (0..RawToApiMax(inv))

ApiToFinishedPicks(inv) ==
  {0, ApiToFinishedDefault, ApiToFinishedMax(inv)} \cap (0..ApiToFinishedMax(inv))

PurchasePicks == {0, PurchaseDefault, PurchaseMax}

RawMaterialCost(p) == p * RawMaterialUnitCost

\* Mutant: a batch that buys nothing is always accepted.
CanAfford_ZeroCostFree(cost, m) == cost = 0 \/ cost <= m

\* Mutant: the purchase is never refused.
CanAfford_Always(cost, m) == TRUE

\* Mutant: strict comparison.
CanAfford_Strict(cost, m) == cost < m

CanAfford(cost, m) == cost <= m

\* Mutant: the two conversion efficiencies exchanged.
InventoryAfterDecisions_SwappedYield(inv, a, b, p) ==
  LET i1 == [inv EXCEPT !.raw_materials = @ - a]
      i2 == [i1 EXCEPT !.api = @ + PyInt(a * 9, 10)]
      i3 == [i2 EXCEPT !.api = @ - b]
      i4 == [i3 EXCEPT !.finished_products = @ + PyInt(b * 8, 10)]
  IN [i4 EXCEPT !.raw_materials = @ + p]

InventoryAfterDecisions(inv, a, b, p) ==
  LET i1 == [inv EXCEPT !.raw_materials = @ - a]
      i2 == [i1 EXCEPT !.api = @ + PyInt(a * 8, 10)]
      i3 == [i2 EXCEPT !.api = @ - b]
      i4 == [i3 EXCEPT !.finished_products = @ + PyInt(b * 9, 10)]
  IN [i4 EXCEPT !.raw_materials = @ + p]

\* Mutant: the conversions are applied before the affordability check.
ExecuteDecisions_ConvertFirst(a, b, p) ==
  /\ IF CanAfford(RawMaterialCost(p), money)
     THEN /\ inventory' = InventoryAfterDecisions(inventory, a, b, p)
          /\ money' = money - RawMaterialCost(p)
          /\ outcome' = "success"
     ELSE /\ inventory' = InventoryAfterDecisions(inventory, a, b, 0)
          /\ UNCHANGED money
          /\ outcome' = "insufficient_funds"
  /\ UNCHANGED <<initialized, week, demand, events, kpis, history>>

ExecuteDecisions(a, b, p) ==
  /\ IF CanAfford(RawMaterialCost(p), money)
     THEN /\ inventory' = InventoryAfterDecisions(inventory, a, b, p)
          /\ money' = money - RawMaterialCost(p)
          /\ outcome' = "success"
     ELSE /\ UNCHANGED <<inventory, money>>
          /\ outcome' = "insufficient_funds"
  /\ UNCHANGED <<initialized, week, demand, events, kpis, history>>

-----------------------------------------------------------------------------
(* The dashboard: any of the three buttons, the sliders within their ranges.*)

ClickNextWeek ==
  \E ev \in PossibleEvents \cup {NoEvent}, f \in DriftPercents :
    /\ clicks < MaxClicks
    /\ clicks' = clicks + 1
    /\ NextWeek(ev, f)

ClickExecute ==
  \E a \in RawToApiPicks(inventory), b \in ApiToFinishedPicks(inventory),
     p \in PurchasePicks :
    /\ clicks < MaxClicks
    /\ clicks' = clicks + 1
    /\ ExecuteDecisions(a, b, p)

ClickReset ==
  /\ ResetSimulation
  /\ UNCHANGED clicks

Next == ClickNextWeek \/ ClickExecute \/ ClickReset

Spec == Init /\ [][Next]_vars

-----------------------------------------------------------------------------
(* SpecDrain: long runs of a player who waits for the first stock-out and   *)
(* then orders only while out of stock.  Every behaviour of SpecDrain is a  *)
(* behaviour of the dashboard; the restriction keeps the runs that exhaust  *)
(* the funds (33 full purchases) within reach.                              *)

\* The lowest drift factor, in percent.
QuietDrift == 90

\* Some week's demand was not met in full.
StockOutSeen ==
  \E i \in DOMAIN kpis.otif : kpis.otif[i][1] < kpis.otif[i][2]

OutOfStock == inventory.finished_products = 0

\* Slider positions tried in the long runs: the largest purchase, the
\* defaults, the default conversions without a purchase, everything at its
\* maximum.
LongRunBatches(inv) ==
  {b \in { <<0, 0, PurchaseMax>>,
           <<RawToApiDefault, ApiToFinishedDefault, PurchaseDefault>>,
           <<RawToApiDefault, ApiToFinishedDefault, 0>>,
           <<RawToApiMax(inv), ApiToFinishedMax(inv), PurchaseMax>> } :
     /\ b[1] \in 0..RawToApiMax(inv)
     /\ b[2] \in 0..ApiToFinishedMax(inv)
     /\ b[3] \in 0..PurchaseMax}

DrainQuietWeek ==
  /\ ~StockOutSeen
  /\ week < MaxWeekDrain
  /\ NextWeek(NoEvent, QuietDrift)
  /\ UNCHANGED clicks

\* The events the long runs draw once a stock-out has been seen.
DrainEvents == {NoEvent, "Raw Material Shortage"}

DrainNextWeek ==
  \E ev \in DrainEvents :
    /\ StockOutSeen
    /\ week < MaxWeekDrain
    /\ NextWeek(ev, QuietDrift)
    /\ UNCHANGED clicks

DrainExecute ==
  \E b \in LongRunBatches(inventory) :
    /\ StockOutSeen
    /\ OutOfStock
    /\ ExecuteDecisions(b[1], b[2], b[3])
    /\ UNCHANGED clicks

DrainNext == DrainQuietWeek \/ DrainNextWeek \/ DrainExecute

SpecDrain == Init /\ [][DrainNext]_vars

-----------------------------------------------------------------------------
(* SpecDecay: long runs in which, after an unrestricted first tick, the     *)
(* market stays quiet (no event, lowest drift, no decisions) until demand   *)
(* has decayed to LateDemand, and is unrestricted afterwards.  Every        *)
(* behaviour of SpecDecay is a behaviour of the dashboard; the restriction  *)
(* keeps demand 0 within reach.                                             *)

LateMarket == demand <= LateDemand

FirstWeek == week = InitialWeek

DecayQuietWeek ==
  /\ ~LateMarket
  /\ ~FirstWeek
  /\ week < MaxWeekDecay
  /\ NextWeek(NoEvent, QuietDrift)
  /\ UNCHANGED clicks

DecayNextWeek ==
  \E ev \in PossibleEvents \cup {NoEvent}, f \in DriftPercents :
    /\ LateMarket \/ FirstWeek
    /\ week < MaxWeekDecay
    /\ NextWeek(ev, f)
    /\ UNCHANGED clicks

DecayExecute ==
  \E b \in LongRunBatches(inventory) :
    /\ LateMarket
    /\ OutOfStock
    /\ b[3] < PurchaseMax
    /\ ExecuteDecisions(b[1], b[2], b[3])
    /\ UNCHANGED clicks

DecayNext == DecayQuietWeek \/ DecayNextWeek \/ DecayExecute

SpecDecay == Init /\ [][DecayNext]_vars

-----------------------------------------------------------------------------
(* SpecEngine: the Execute Decisions handler reached without the sliders,   *)
(* with amounts outside their ranges as well.                               *)

EngineAmounts(max) == {-1, 0, max, max + 1}

EngineExecute ==
  \E a \in EngineAmounts(RawToApiMax(inventory)),
     b \in EngineAmounts(ApiToFinishedMax(inventory)),
     p \in {-1, 0, PurchaseMax} :
    /\ clicks < MaxClicks
    /\ clicks' = clicks + 1
    /\ ExecuteDecisions(a, b, p)

EngineNext == ClickNextWeek \/ EngineExecute

SpecEngine == Init /\ [][EngineNext]_vars

-----------------------------------------------------------------------------
(* SpecFrame: the long runs of SpecDrain in which, in addition, the market  *)
(* is unrestricted (any event, either drift) in the tick that follows a     *)
(* rejected batch.  Every behaviour of SpecFrame is a behaviour of the      *)
(* dashboard.                                                               *)

FrameNextWeek ==
  \E ev \in PossibleEvents \cup {NoEvent}, f \in DriftPercents :
    /\ outcome = "insufficient_funds"
    /\ week < MaxWeekDrain
    /\ NextWeek(ev, f)
    /\ UNCHANGED clicks

FrameNext == DrainNext \/ FrameNextWeek

SpecFrame == Init /\ [][FrameNext]_vars

-----------------------------------------------------------------------------
(* Properties.                                                              *)

AllEvents == PossibleEvents \cup {NoEvent}

\* C1: with every batch inside the slider ranges, raw_materials, api and
\* finished_products are >= 0 in every reachable state, whatever events and
\* drift factors the ticks draw.
C1_InventoryNonNegative ==
  /\ inventory.raw_materials >= 0
  /\ inventory.api >= 0
  /\ inventory.finished_products >= 0

\* Decisions have converted the whole raw-material stock and the whole api
\* stock, and a tick has settled since.
C1_Witness ==
  /\ inventory.raw_materials = 0
  /\ inventory.api = 0
  /\ week > 1

\* C2: a batch whose purchase cost 10 * raw_materials_to_buy exceeds the
\* funds is rejected as a whole: funds and inventory stay as they were and
\* the outcome is the insufficient-funds error.
C2_UnaffordableBatchRejected ==
  [][\A b \in LongRunBatches(inventory) :
       (ExecuteDecisions(b[1], b[2], b[3]) /\ 10 * b[3] > money)
         => /\ money' = money
            /\ inventory' = inventory
            /\ outcome' = "insufficient_funds"]_vars

\* A batch with conversions was refused while the funds were not negative.
C2_Witness ==
  /\ outcome = "insufficient_funds"
  /\ money >= 0
  /\ money < 10 * PurchaseDefault

\* C3: no Execute Decisions step takes the funds from >= 0 to < 0; a step
\* that does is a Next Week tick that drew Raw Material Shortage.
C3_OnlyShortageMakesFundsNegative ==
  [][/\ (\A b \in LongRunBatches(inventory) :
           (ExecuteDecisions(b[1], b[2], b[3]) /\ money >= 0) => money' >= 0)
     /\ (money >= 0 /\ money' < 0)
          => /\ week' = week + 1
             /\ Len(events') = Len(events) + 1
             /\ Last(events') = [week |-> week', name |-> "Raw Material Shortage"]]_vars

\* The funds are negative.
C3_Witness == money < 0

\* C4 (as claimed): Reset brings back week 1, funds 1,000,000, the initial
\* inventory and demand, and empties the event log, the history and the KPI
\* sequences.
C4_ResetRestoresInitialState ==
  [][ResetSimulation
       => /\ week' = 1
          /\ money' = 1000000
          /\ inventory' = [raw_materials |-> 5000, api |-> 3000,
                           finished_products |-> 2000]
          /\ demand' = 500
          /\ events' = <<>>
          /\ history' = <<>>
          /\ kpis' = [inventory_turnover |-> <<>>, otif |-> <<>>,
                      costs |-> <<>>, revenue |-> <<>>]]_vars

\* C5 (as claimed): every advance of the week processes a decision batch in
\* the same transition, so it ends with the batch applied or rejected.
C5_WeekAdvanceProcessesBatch ==
  [][week' = week + 1 => outcome' \in {"success", "insufficient_funds"}]_vars

\* C5 (amended): an advance of the week processes no decision batch (no
\* outcome, raw_materials and api untouched); a batch is processed only by
\* an Execute Decisions step, which leaves week alone and succeeds exactly
\* when its cost is within the current funds, the revenue of the ticks
\* before it included.
C5_DecisionsAreSeparateSteps ==
  [][/\ week' # week
          => /\ week' = week + 1
             /\ outcome' = "none"
             /\ inventory'.raw_materials = inventory.raw_materials
             /\ inventory'.api = inventory.api
     /\ \A b \in LongRunBatches(inventory) :
          ExecuteDecisions(b[1], b[2], b[3])
            => /\ week' = week
               /\ outcome' \in {"success", "insufficient_funds"}
               /\ outcome' = "success" <=> 10 * b[3] <= money]_vars

\* A purchase went through that only the last tick's revenue could pay: the
\* funds were 0 going into the tick.
C5_Witness ==
  /\ history # <<>>
  /\ Last(history).money = 0
  /\ outcome = "success"
  /\ money > 0
  /\ money < Last(kpis.revenue)

\* C6: every tick settles once, after the event and the drift: with fp the
\* finished products after the event and d the drifted demand,
\* sold = min(fp, d), finished_products = fp - sold, funds grow by 300 * sold
\* and 300 * sold is the revenue sample appended, also when sold = 0.
C6_SettlementOncePerTick ==
  [][\A ev \in AllEvents, f \in DriftPercents :
       NextWeek(ev, f)
         => LET fp0   == inventory.finished_products
                fp    == IF ev = "Quality Issue" THEN (fp0 * 9) \div 10
                         ELSE IF ev = "Cold Chain Failure" THEN (fp0 * 95) \div 100
                         ELSE fp0
                d     == demand'
                sold  == IF fp <= d THEN fp ELSE d
                funds == IF ev = "Raw Material Shortage"
                         THEN money - (inventory.raw_materials * 25) \div 100
                         ELSE money
            IN /\ inventory'.finished_products = fp - sold
               /\ money' = funds + 300 * sold
               /\ kpis'.revenue = Append(kpis.revenue, 300 * sold)]_vars

\* Ticks that sold everything asked for, a tick that sold less, and a last
\* tick that sold nothing.
C6_Witness ==
  /\ Len(kpis.revenue) > 2
  /\ Last(kpis.revenue) = 0
  /\ \E i \in DOMAIN kpis.revenue : kpis.revenue[i] > 0
  /\ \E i \in DOMAIN events : events[i].name = "Quality Issue"

\* The demand a tick ended with: the next snapshot's, or the current one.
DemandAfterTick(i) ==
  IF i < Len(history) THEN history[i + 1].demand ELSE demand

\* C7: the fill rate recorded for a tick is sold / demand with
\* 0 <= sold <= demand when the tick's drifted demand is > 0, it is exactly 1
\* when that demand is 0, and no recorded fraction has denominator 0.
C7_FillRateInUnitInterval ==
  \A i \in DOMAIN kpis.otif :
    LET d == DemandAfterTick(i)
    IN /\ kpis.otif[i][2] # 0
       /\ kpis.inventory_turnover[i][2] # 0
       /\ d > 0 => /\ kpis.otif[i][2] = d
                   /\ 0 <= kpis.otif[i][1]
                   /\ kpis.otif[i][1] <= d
       /\ d = 0 => kpis.otif[i] = <<1, 1>>

\* Demand has reached 0 and a tick has been recorded with it.
C7_Witness ==
  /\ demand = 0
  /\ kpis.otif # <<>>
  /\ Last(kpis.otif) = <<1, 1>>
  /\ \E i \in DOMAIN kpis.otif : kpis.otif[i][1] < kpis.otif[i][2]

\* C8 (as claimed): a batch with a negative amount, or converting more than
\* is in stock, is rejected by the handler itself: inventory and funds stay
\* as they were and the outcome is an invalid-decision error.
C8_EngineRejectsInvalidBatch ==
  [][\A a \in EngineAmounts(RawToApiMax(inventory)),
        b \in EngineAmounts(ApiToFinishedMax(inventory)),
        p \in {-1, 0, PurchaseMax} :
       (/\ ExecuteDecisions(a, b, p)
        /\ \/ a < 0 \/ b < 0 \/ p < 0
           \/ a > inventory.raw_materials
           \/ b > inventory.api)
         => /\ inventory' = inventory
            /\ money' = money
            /\ outcome' = "invalid_decision"]_vars

\* C9: a batch (a, b, p) with 10 * p <= funds gives raw - a + p,
\* api + floor(0.8 a) - b, fp + floor(0.9 b) and funds - 10 * p.
C9_ExecuteResult ==
  [][\A a \in RawToApiPicks(inventory), b \in ApiToFinishedPicks(inventory),
        p \in PurchasePicks :
       (ExecuteDecisions(a, b, p) /\ 10 * p <= money)
         => /\ inventory'.raw_materials = inventory.raw_materials - a + p
            /\ inventory'.api = inventory.api + (8 * a) \div 10 - b
            /\ inventory'.finished_products =
                 inventory.finished_products + (9 * b) \div 10
            /\ money' = money - 10 * p
            /\ outcome' = "success"]_vars

\* The spec's example, a = 100 on raw = 5000, followed by a batch that turned
\* the whole api stock into finished products.
C9_Witness ==
  /\ outcome = "success"
  /\ inventory.raw_materials = 4900
  /\ inventory.api = 0
  /\ inventory.finished_products = 2000 + (9 * 3080) \div 10

\* C10: a tick applies its event once, before drift and settlement: Demand
\* Spike floor(1.3 demand), Raw Material Shortage a debit of
\* floor(0.25 raw_materials), Quality Issue floor(0.9 fp), Cold Chain Failure
\* floor(0.95 fp); Regulatory Change ends as a tick without event does, but
\* for its record in the event log.
C10_EventEffects ==
  [][\A ev \in AllEvents, f \in DriftPercents :
       NextWeek(ev, f)
         => LET rev    == Last(kpis'.revenue)
                sold   == rev \div 300
                fp0    == inventory.finished_products
                quiet  == (demand * f) \div 100
            IN /\ demand' = IF ev = "Demand Spike"
                            THEN (((demand * 13) \div 10) * f) \div 100
                            ELSE quiet
               /\ money' - rev = IF ev = "Raw Material Shortage"
                                 THEN money - (inventory.raw_materials * 25) \div 100
                                 ELSE money
               /\ inventory'.finished_products + sold =
                    IF ev = "Quality Issue" THEN (fp0 * 9) \div 10
                    ELSE IF ev = "Cold Chain Failure" THEN (fp0 * 95) \div 100
                    ELSE fp0
               /\ events' = IF ev = NoEvent THEN events
                            ELSE Append(events, [week |-> week + 1, name |-> ev])
               /\ ev \in {"Regulatory Change", NoEvent}
                    => LET s == IF fp0 <= quiet THEN fp0 ELSE quiet
                       IN /\ week' = week + 1
                          /\ demand' = quiet
                          /\ money' = money + 300 * s
                          /\ inventory' =
                               [inventory EXCEPT !.finished_products = fp0 - s]]_vars

\* Three ticks that drew a Demand Spike, a Quality Issue and a Regulatory
\* Change.
C10_Witness ==
  /\ \E i \in DOMAIN events : events[i].name = "Demand Spike"
  /\ \E i \in DOMAIN events : events[i].name = "Quality Issue"
  /\ \E i \in DOMAIN events : events[i].name = "Regulatory Change"

\* C11: the i-th snapshot holds week i and the funds, inventory and demand
\* the i-th Next Week found, before any of its effects; a snapshot in the
\* history is never changed afterwards, whatever happens to the live
\* inventory.
C11_SnapshotsFrozen ==
  [][/\ \A ev \in AllEvents, f \in DriftPercents :
          NextWeek(ev, f)
            => /\ Len(history') = Len(history) + 1
               /\ Last(history') = [week |-> week, money |-> money,
                                    inventory |-> inventory, demand |-> demand]
               /\ Last(history').week = Len(history')
     /\ \A i \in DOMAIN history :
          i \in DOMAIN history' /\ history'[i] = history[i]]_vars

\* Two snapshots with different inventories, both different from the live
\* inventory: decisions and settlements came between and after them.
C11_Witness ==
  /\ Len(history) = 2
  /\ history[1].inventory = [raw_materials |-> 5000, api |-> 3000,
                             finished_products |-> 2000]
  /\ history[2].inventory.raw_materials # history[1].inventory.raw_materials
  /\ inventory.finished_products # history[2].inventory.finished_products

\* C12: the event log is append-only: a Next Week step appends no record or
\* exactly one, carrying the incremented week, and applies at most one of
\* the event effects (demand spike, funds debit, loss of finished
\* products); any other step leaves the log as it is.
C12_EventLogAppendOnly ==
  [][/\ \/ events' = events
        \/ /\ week' = week + 1
           /\ \E ev \in PossibleEvents :
                events' = Append(events, [week |-> week', name |-> ev])
     /\ week' = week => events' = events
     /\ week' = week + 1
          => LET rev     == Last(kpis'.revenue)
                 debited == money' - rev # money
                 lost    == inventory'.finished_products + rev \div 300
                              # inventory.finished_products
                 spiked  == \A f \in DriftPercents : demand' # (demand * f) \div 100
                 effects == {e \in {"debit", "loss", "spike"} :
                               \/ e = "debit" /\ debited
                               \/ e = "loss" /\ lost
                               \/ e = "spike" /\ spiked}
             IN /\ Cardinality(effects) <= 1
                /\ events' = events => effects = {}]_vars

\* Three ticks, of which the first and the third appended a record (weeks
\* 2 and 4) and the second appended none.
C12_Witness ==
  /\ week = 4
  /\ Len(events) = 2
  /\ events[1].week = 2
  /\ events[2].week = 4

\* week - 1 is the length of the history and of each KPI sequence.
TickAligned ==
  /\ week >= 1
  /\ Len(history) = week - 1
  /\ Len(kpis.inventory_turnover) = week - 1
  /\ Len(kpis.otif) = week - 1
  /\ Len(kpis.costs) = week - 1
  /\ Len(kpis.revenue) = week - 1

\* C13: week >= 1 and week - 1 is the length of the history and of each of
\* the four KPI sequences, before and after every step; a step changes week
\* and these lengths only by adding exactly 1 to each of them (a Next Week),
\* and every other step leaves them all as they are.
C13_WeekCountsTicks ==
  [][/\ TickAligned
     /\ TickAligned'
     /\ week' = week \/ week' = week + 1
     /\ week' = week + 1 => \E ev \in AllEvents, f \in DriftPercents : NextWeek(ev, f)
     /\ \A ev \in AllEvents, f \in DriftPercents : NextWeek(ev, f) => week' = week + 1
     /\ ResetSimulation => week' = week
     /\ outcome' # "none" => week' = week]_vars

\* Three ticks recorded, with a decision step taken at some point.
C13_Witness ==
  /\ week = 3
  /\ Len(history) = 2
  /\ Len(kpis.costs) = 2
  /\ outcome = "success"

\* A second Reset, taken right after a first one, leaves the WorldState as
\* the first one left it.
SecondResetKeepsWorld == ENABLED (ResetSimulation /\ UNCHANGED world)

\* C14: Reset is idempotent: after a Reset from any reachable state, a
\* second Reset leaves exactly the WorldState (week, funds, inventory,
\* demand, event log, history, KPI sequences) that the first one left.
C14_ResetIdempotent ==
  [][ResetSimulation => SecondResetKeepsWorld']_vars

\* A Reset was invoked after ticks and decisions had changed the state.
C14_Witness ==
  /\ initialized = "False"
  /\ week > InitialWeek
  /\ inventory.api # InitialApi

\* finished_products after the event effect of a tick and before its
\* settlement, recovered from the tick's own records: the Quality Issue
\* loss (10 %) or the Cold Chain Failure loss (5 %) applies when the tick
\* logged that event.
FinishedBeforeSettlement ==
  LET logged == IF Len(events') = Len(events) + 1
                THEN Last(events').name ELSE NoEvent
  IN IF logged = "Quality Issue"
     THEN (inventory.finished_products * 9) \div 10
     ELSE IF logged = "Cold Chain Failure"
     THEN (inventory.finished_products * 95) \div 100
     ELSE inventory.finished_products

\* C15: the KPI sample of a tick is taken after the tick's event effect and
\* before settlement: the inventory value is 10 x raw_materials + 50 x api +
\* 200 x finished_products at that point, and the turnover is
\* 10 x sold / (10 x fp_before + 1), at least 0 and strictly below 1.
C15_KpiSampleBeforeSettlement ==
  [][week' = week + 1 =>
       LET fp   == FinishedBeforeSettlement
           sold == fp - inventory'.finished_products
           t    == Last(kpis'.inventory_turnover)
       IN /\ Last(kpis'.costs) = 10 * inventory.raw_materials
                                   + 50 * inventory.api + 200 * fp
          /\ sold = Min(fp, demand')
          /\ t = <<10 * sold, 10 * fp + 1>>
          /\ t[1] >= 0
          /\ t[1] < t[2]]_vars

\* The first tick settled 450 or 550 of 2000 units (turnover 4500 / 20001 or
\* 5500 / 20001), and a later tick sampled the stock after a Quality Issue
\* had reduced it.
C15_Witness ==
  /\ Len(kpis.inventory_turnover) >= 2
  /\ kpis.inventory_turnover[1] \in {<<4500, 20001>>, <<5500, 20001>>}
  /\ Len(events) >= 1
  /\ Last(events) = [week |-> week, name |-> "Quality Issue"]
  /\ week >= 3
  /\ Last(kpis.costs) < 10 * inventory.raw_materials + 50 * inventory.api
                          + 200 * Last(history).inventory.finished_products

\* ---- Visualization: the Financial Performance chart ----

\* weeks = [h['week'] for h in history]
Weeks == [i \in DOMAIN history |-> history[i].week]

\* series + [0] * (n - len(series)) when the series is shorter than n,
\* the series itself otherwise.
PadToWeeks(series, n) ==
  IF Len(series) < n
  THEN series \o [i \in 1..(n - Len(series)) |-> 0]
  ELSE series

\* revenue_data and costs_data as handed to ax.bar and ax.plot.
RevenueData == PadToWeeks(<<0>> \o kpis.revenue, Len(Weeks))
CostsData == PadToWeeks(<<0>> \o kpis.costs, Len(Weeks))

\* The chart is drawn when the history has more than one entry and the
\* revenue sequence is not empty.
FinancialChartDrawn == Len(history) > 1 /\ Len(kpis.revenue) > 0

\* C16: whenever the Financial Performance chart is drawn, the revenue
\* series and the cost series handed to the plot have the same length as the
\* weeks series taken from the history.
C16_ChartSeriesMatchWeeks ==
  FinancialChartDrawn =>
    /\ Len(RevenueData) = Len(Weeks)
    /\ Len(CostsData) = Len(Weeks)

\* C17: a Next Week tick, whatever event it draws, leaves raw_materials and
\* api unchanged; an Execute Decisions step, accepted or rejected, leaves
\* week, demand, the event log, the history and the four KPI sequences
\* unchanged.
C17_DisjointFrames ==
  [][/\ week' = week + 1
          => /\ inventory'.raw_materials = inventory.raw_materials
             /\ inventory'.api = inventory.api
     /\ outcome' \in {"success", "insufficient_funds"}
          => UNCHANGED <<week, demand, events, history, kpis>>]_vars

\* Purchases were accepted until the funds were used up, a batch was then
\* rejected, and the tick after it drew a Regulatory Change.
C17_Witness ==
  /\ money < RawMaterialCost(PurchaseDefault)
  /\ Len(events) >= 1
  /\ Last(events) = [week |-> week, name |-> "Regulatory Change"]
  /\ outcome = "none"
  /\ inventory.raw_materials > InitialRaw

\* Funds after the event effect of a tick and before its settlement,
\* recovered from the tick's own records: the Raw Material Shortage debit
\* (a quarter of raw_materials) applies when the tick logged that event.
FundsBeforeSettlement ==
  IF /\ Len(events') = Len(events) + 1
     /\ Last(events').name = "Raw Material Shortage"
  THEN money - (inventory.raw_materials * 25) \div 100
  ELSE money

\* C18: demand 0 is absorbing: once demand is 0 it is 0 after every later
\* tick, whatever the event (Demand Spike included) and the drift, and in
\* every such tick sold = 0, revenue = 0, fill rate = 1, and settlement
\* changes neither finished_products nor funds.
C18_ZeroDemandAbsorbing ==
  [][demand = 0 =>
       /\ demand' = 0
       /\ week' = week + 1 =>
            /\ Last(kpis'.revenue) = 0
            /\ Last(kpis'.otif) = <<1, 1>>
            /\ Last(kpis'.inventory_turnover)[1] = 0
            /\ inventory'.finished_products = FinishedBeforeSettlement
            /\ money' = FundsBeforeSettlement]_vars

\* A tick that started with demand 0 and finished products in stock drew a
\* Demand Spike; demand is still 0 and nothing was sold.
C18_Witness ==
  /\ demand = 0
  /\ Len(history) >= 1
  /\ Last(history).demand = 0
  /\ Last(history).inventory.finished_products > 0
  /\ Len(events) >= 1
  /\ Last(events) = [week |-> week, name |-> "Demand Spike"]
  /\ inventory.finished_products = Last(history).inventory.finished_products

C20_DefaultsWithinSliderRanges ==
  /\ RawToApiDefault \in 0..RawToApiMax(inventory)
  /\ ApiToFinishedDefault \in 0..ApiToFinishedMax(inventory)

====
